---------------------------- MODULE Spec2Model ----------------------------
(* Yatube (posts app): the follow graph, the feeds, the index page cache,  *)
(* post editing and pagination, as implemented by yatube/posts/views.py.   *)
(* Storage is modelled as tables: posts is the Post table in primary-key   *)
(* order, follows is the Follow table as a bag of (user, author) rows.     *)
EXTENDS Integers, Sequences, FiniteSets, Bags, TLC

VARIABLES
    posts,      \* the Post table: a sequence of rows, the primary key is the index
    follows,    \* the Follow table: a bag of <<user, author>> rows
    cache,      \* the page cache of index: URL argument -> entry
    now,        \* the clock of the cache, in seconds
    request,    \* the latest request served
    response,   \* its response
    before,     \* history: the Follow table as the latest request found it
    comments,   \* the Comment table: a sequence of rows
    inflight    \* the profile_follow requests being served concurrently, by worker

vars == <<posts, follows, cache, now, request, response, before, comments, inflight>>

----------------------------------------------------------------------------
(* Bounds of the model *)

\* most posts a behaviour of Spec, SpecFeed, SpecEdit or SpecCache creates
MaxPosts == 2
\* most posts of the fixture that SpecPage starts from
MaxFixture == 21
\* largest integer ?page= argument requested
MaxPageArg == 3
\* the clock stops advancing here
MaxTime == 42
\* most comments a behaviour of SpecComment creates
MaxComments == 2
\* workers serving profile_follow requests at the same time in SpecRace
MaxWorkers == 2

(* Program constants *)

\* @cache_page(20, key_prefix='index_page')
CACHE_SECONDS == 20
\* settings.POST_PER_PAGE, the page size paginate_objects passes to Paginator
POST_PER_PAGE == 10

----------------------------------------------------------------------------
(* Identities and request inputs *)

Users == {"u1", "u2", "u3"}
\* request.user of a request without a session: django's AnonymousUser
Anon == "AnonymousUser"
Actors == Users \cup {Anon}
\* usernames a URL may carry; "ghost" names no User
Usernames == Users \cup {"ghost"}
Groups == {"g1", "g2"}
NoGroup == "-"
\* slugs a URL may carry; "noslug" names no Group
Slugs == Groups \cup {"noslug"}
Texts == {"a", "b"}
NoImage == "-"
Images == {"img"}

\* the ?page= argument: absent, or an integer
NoPage == [kind |-> "absent", n |-> 0]
IntPage(k) == [kind |-> "int", n |-> k]
PageArgs == {NoPage} \cup {IntPage(k) : k \in 0..MaxPageArg}

\* request.POST / request.FILES of a post form; text "" is a missing text
NoData == [text |-> "", group |-> NoGroup, image |-> NoImage]
FormData == [text : Texts \cup {""}, group : Groups \cup {NoGroup, "g9"}, image : Images \cup {NoImage}]

Req(view, user, method) == [view |-> view, user |-> user, method |-> method, username |-> "", slug |-> "", post_id |-> 0, page |-> NoPage, data |-> NoData]
NoRequest == Req("", Anon, "GET")

----------------------------------------------------------------------------
(* Responses *)

Resp(kind, target) == [kind |-> kind, target |-> target, post_id |-> 0, username |-> "", number |-> 0, page |-> <<>>, following |-> "unset"]
\* render(request, template, context): the page number and the posts of page_obj
Render(template, pg) == [Resp("render", template) EXCEPT !.number = pg.number, !.page = pg.object_list]
Redirect(to, post_id, username) == [Resp("redirect", to) EXCEPT !.post_id = post_id, !.username = username]
\* login_required's answer to an anonymous request: redirect to settings.LOGIN_URL
RedirectLogin == Redirect("login", 0, "")
\* get_object_or_404's Http404
NotFound == Resp("not_found", "")
\* an uncaught IntegrityError of the storage
ServerError == Resp("server_error", "")
NoResponse == Resp("", "")

\* the workers (threads or processes) of the server
Workers == 1..MaxWorkers
\* a worker serving no request
Idle == [pc |-> "idle", user |-> Anon, author |-> "", response |-> NoResponse]

\* a view left without login_required: every request is let through
is_authenticated_always(user) == TRUE

\* user.is_authenticated, which login_required tests
is_authenticated(user) == user # Anon

----------------------------------------------------------------------------
(* Storage queries *)

\* what a template shows of Post pk
RenderPost(pk) == [id |-> pk, text |-> posts[pk].text, author |-> posts[pk].author, group |-> posts[pk].group, image |-> posts[pk].image]

\* Meta.ordering = ('-pub_date',): primary keys of all posts, newest first
PostsAll == [i \in 1..Len(posts) |-> Len(posts) + 1 - i]

\* a group page that forgot its filter: every post
GroupPosts_all(group) == PostsAll

\* group.posts.all()
GroupPosts(group) == SelectSeq(PostsAll, LAMBDA pk : posts[pk].group = group)

\* author.posts.all()
AuthorPosts(author) == SelectSeq(PostsAll, LAMBDA pk : posts[pk].author = author)

\* Follow.objects.filter(user=user, author=author).exists()
FollowExists(user, author) == CopiesIn(<<user, author>>, follows) > 0

RECURSIVE Repeat(_, _)
Repeat(x, n) == IF n <= 0 THEN <<>> ELSE <<x>> \o Repeat(x, n - 1)

RECURSIVE JoinFollowing(_, _)
\* the join Post x Follow on Follow.author = Post.author with Follow.user = user:
\* one result row per matching Follow row
JoinFollowing(pks, user) ==
    IF pks = <<>> THEN <<>>
    ELSE Repeat(Head(pks), CopiesIn(<<user, posts[Head(pks)].author>>, follows)) \o JoinFollowing(Tail(pks), user)

\* the join taken along the other relation: posts of the authors who follow user
FollowedPosts_follower(user) == SelectSeq(PostsAll, LAMBDA pk : CopiesIn(<<posts[pk].author, user>>, follows) > 0)

\* Post.objects.filter(author__following__user=current_user)
FollowedPosts(user) == JoinFollowing(PostsAll, user)

----------------------------------------------------------------------------
(* Pagination: utils.paginate_objects, django's Paginator.get_page *)

\* Paginator.num_pages with orphans = 0 and allow_empty_first_page
NumPages(count) == ((IF count > 1 THEN count ELSE 1) + POST_PER_PAGE - 1) \div POST_PER_PAGE

\* Paginator.get_page's number: not an integer -> 1, out of range -> the last page
PageNumber(arg, count) ==
    IF arg.kind # "int" THEN 1
    ELSE IF arg.n < 1 \/ arg.n > NumPages(count) THEN NumPages(count)
    ELSE arg.n

Min(a, b) == IF a < b THEN a ELSE b

\* Paginator.page(number): rendered posts bottom+1 .. top of the list
PageOf(pks, number) ==
    LET bottom == (number - 1) * POST_PER_PAGE
        top == Min(bottom + POST_PER_PAGE, Len(pks))
    IN  [number |-> number, object_list |-> [i \in 1..(top - bottom) |-> RenderPost(pks[bottom + i])]]

\* paginate_objects(posts, request)
paginate_objects(pks, arg) == PageOf(pks, PageNumber(arg, Len(pks)))

EmptyPage == [number |-> 0, object_list |-> <<>>]

----------------------------------------------------------------------------
(* Storage writes *)

\* a delete filtered by user alone: every row of the user goes
FollowDelete_user(user, author) == [r \in {q \in DOMAIN follows : q[1] # user} |-> follows[r]]

\* the Follow table without its rows matching (user, author): QuerySet.delete()
FollowDelete(user, author) == [r \in (DOMAIN follows) \ {<<user, author>>} |-> follows[r]]

\* the Follow table with one more (user, author) row: Follow.objects.create
FollowInsert(user, author) == follows (+) SetToBag({<<user, author>>})

\* the Follow table as it was before the constraint was added: every insert is taken
UniqueUserAuthor_absent(user, author) == TRUE

\* UniqueConstraint(fields=('user', 'author'), name='unique_user_author'):
\* the storage refuses an insert of a row it already holds
UniqueUserAuthor(user, author) == CopiesIn(<<user, author>>, follows) = 0

\* PostForm.is_valid(): text is required, group is optional and must exist
PostFormValid(data) == data.text # "" /\ data.group \in Groups \cup {NoGroup}

\* form.save(commit=False) with post.author = request.user
NewPost(user, data) == [author |-> user, text |-> data.text, group |-> data.group, image |-> data.image]

\* form.save() of a PostForm bound to instance=post: an absent upload keeps the image
SavedPost(post, data) == [post EXCEPT !.text = data.text, !.group = data.group, !.image = IF data.image = NoImage THEN @ ELSE data.image]

----------------------------------------------------------------------------
(* Views of the follow graph *)

\* the condition without its existence check
MayFollow_unchecked(user, author) == author # user

\* the condition without its self-follow check
MayFollow_self(user, author) == ~FollowExists(user, author)

\* the condition under which profile_follow creates the edge
MayFollow(user, author) == author # user /\ ~FollowExists(user, author)

profile_follow(user, username) ==
    /\ request' = [Req("profile_follow", user, "GET") EXCEPT !.username = username]
    /\ before' = follows
    /\ UNCHANGED <<comments, inflight>>
    /\ IF ~is_authenticated(user) THEN
           response' = RedirectLogin /\ UNCHANGED follows
       ELSE IF username \notin Users THEN
           response' = NotFound /\ UNCHANGED follows
       ELSE IF MayFollow(user, username) THEN
           IF UniqueUserAuthor(user, username) THEN
               follows' = FollowInsert(user, username) /\ response' = Redirect("posts:follow_index", 0, "")
           ELSE
               response' = ServerError /\ UNCHANGED follows
       ELSE
           response' = Redirect("posts:follow_index", 0, "") /\ UNCHANGED follows
    /\ UNCHANGED <<posts, cache, now>>

profile_unfollow(user, username) ==
    /\ request' = [Req("profile_unfollow", user, "GET") EXCEPT !.username = username]
    /\ before' = follows
    /\ UNCHANGED <<comments, inflight>>
    /\ IF ~is_authenticated(user) THEN
           response' = RedirectLogin /\ UNCHANGED follows
       ELSE IF username \notin Users THEN
           response' = NotFound /\ UNCHANGED follows
       ELSE IF FollowExists(user, username) THEN
           follows' = FollowDelete(user, username) /\ response' = Redirect("posts:index", 0, "")
       ELSE
           response' = Redirect("posts:index", 0, "") /\ UNCHANGED follows
    /\ UNCHANGED <<posts, cache, now>>

follow_index(user, page) ==
    /\ request' = [Req("follow_index", user, "GET") EXCEPT !.page = page]
    /\ before' = follows
    /\ UNCHANGED <<comments, inflight>>
    /\ IF ~is_authenticated(user) THEN
           response' = RedirectLogin
       ELSE
           response' = Render("posts/follow.html", paginate_objects(FollowedPosts(user), page))
    /\ UNCHANGED <<posts, follows, cache, now>>

----------------------------------------------------------------------------
(* profile_follow served by concurrent workers: the existence check and  *)
(* the create are two storage steps, and other requests run in between  *)

\* a worker takes a request: login_required, then get_object_or_404
follow_receive(w, user, username) ==
    /\ inflight[w].pc = "idle"
    /\ inflight' = [inflight EXCEPT ![w] =
           IF ~is_authenticated(user) THEN [pc |-> "done", user |-> user, author |-> username, response |-> RedirectLogin]
           ELSE IF username \notin Users THEN [pc |-> "done", user |-> user, author |-> username, response |-> NotFound]
           ELSE [pc |-> "check", user |-> user, author |-> username, response |-> NoResponse]]
    /\ UNCHANGED <<posts, follows, cache, now, request, response, before, comments>>

\* the worker evaluates author != current_user and not ...exists()
follow_check(w) ==
    /\ inflight[w].pc = "check"
    /\ inflight' = [inflight EXCEPT ![w] =
           IF MayFollow(inflight[w].user, inflight[w].author) THEN [@ EXCEPT !.pc = "create"]
           ELSE [@ EXCEPT !.pc = "done", !.response = Redirect("posts:follow_index", 0, "")]]
    /\ UNCHANGED <<posts, follows, cache, now, request, response, before, comments>>

\* the worker runs Follow.objects.create: the storage takes the row, or
\* refuses it with an IntegrityError
follow_create(w) ==
    /\ inflight[w].pc = "create"
    /\ IF UniqueUserAuthor(inflight[w].user, inflight[w].author) THEN
           /\ follows' = FollowInsert(inflight[w].user, inflight[w].author)
           /\ inflight' = [inflight EXCEPT ![w].pc = "done", ![w].response = Redirect("posts:follow_index", 0, "")]
       ELSE
           /\ inflight' = [inflight EXCEPT ![w].pc = "done", ![w].response = ServerError]
           /\ UNCHANGED follows
    /\ UNCHANGED <<posts, cache, now, request, response, before, comments>>

\* the response is sent and the worker is free again
follow_respond(w) ==
    /\ inflight[w].pc = "done"
    /\ inflight' = [inflight EXCEPT ![w] = Idle]
    /\ UNCHANGED <<posts, follows, cache, now, request, response, before, comments>>

----------------------------------------------------------------------------
(* Views of posts *)

post_create(user, method, data) ==
    /\ (is_authenticated(user) /\ method = "POST" /\ PostFormValid(data)) => Len(posts) < MaxPosts
    /\ request' = [Req("post_create", user, method) EXCEPT !.data = data]
    /\ before' = follows
    /\ UNCHANGED <<comments, inflight>>
    /\ IF ~is_authenticated(user) THEN
           response' = RedirectLogin /\ UNCHANGED posts
       ELSE IF method = "POST" /\ PostFormValid(data) THEN
           posts' = Append(posts, NewPost(user, data)) /\ response' = Redirect("posts:profile", 0, user)
       ELSE
           response' = Render("posts/create_post.html", EmptyPage) /\ UNCHANGED posts
    /\ UNCHANGED <<follows, cache, now>>

\* an edit view without its author check
IsAuthor_anyone(user, post_id) == TRUE

\* current_user == post.author
IsAuthor(user, post_id) == user = posts[post_id].author

post_edit(user, method, post_id, data) ==
    /\ request' = [Req("post_edit", user, method) EXCEPT !.post_id = post_id, !.data = data]
    /\ before' = follows
    /\ UNCHANGED <<comments, inflight>>
    /\ IF ~is_authenticated(user) THEN
           response' = RedirectLogin /\ UNCHANGED posts
       ELSE IF post_id \notin DOMAIN posts THEN
           response' = NotFound /\ UNCHANGED posts
       ELSE IF IsAuthor(user, post_id) THEN
           IF method = "POST" /\ PostFormValid(data) THEN
               posts' = [posts EXCEPT ![post_id] = SavedPost(@, data)] /\ response' = Redirect("posts:post_detail", post_id, "")
           ELSE
               response' = [Render("posts/create_post.html", EmptyPage) EXCEPT !.post_id = post_id] /\ UNCHANGED posts
       ELSE
           response' = Redirect("posts:post_detail", post_id, "") /\ UNCHANGED posts
    /\ UNCHANGED <<follows, cache, now>>

\* CommentForm.is_valid(): text is required
CommentFormValid(data) == data.text # ""

\* a comment saved under the author of the post instead of the requesting user
NewComment_postauthor(user, post_id, data) == [author |-> posts[post_id].author, post |-> post_id, text |-> data.text]

\* form.save(commit=False) with comment.author = request.user, comment.post = post
NewComment(user, post_id, data) == [author |-> user, post |-> post_id, text |-> data.text]

add_comment(user, method, post_id, data) ==
    /\ (is_authenticated(user) /\ post_id \in DOMAIN posts /\ method = "POST" /\ CommentFormValid(data)) => Len(comments) < MaxComments
    /\ request' = [Req("add_comment", user, method) EXCEPT !.post_id = post_id, !.data = data]
    /\ before' = follows
    /\ IF ~is_authenticated(user) THEN
           response' = RedirectLogin /\ UNCHANGED comments
       ELSE IF post_id \notin DOMAIN posts THEN
           response' = NotFound /\ UNCHANGED comments
       ELSE IF method = "POST" /\ CommentFormValid(data) THEN
           comments' = Append(comments, NewComment(user, post_id, data)) /\ response' = Redirect("posts:post_detail", post_id, "")
       ELSE
           response' = Redirect("posts:post_detail", post_id, "") /\ UNCHANGED comments
    /\ UNCHANGED <<posts, follows, cache, now, inflight>>

group_posts(slug, page) ==
    /\ request' = [Req("group_posts", Anon, "GET") EXCEPT !.slug = slug, !.page = page]
    /\ before' = follows
    /\ UNCHANGED <<comments, inflight>>
    /\ IF slug \notin Groups THEN
           response' = NotFound
       ELSE
           response' = Render("posts/group_list.html", paginate_objects(GroupPosts(slug), page))
    /\ UNCHANGED <<posts, follows, cache, now>>

profile(user, username, page) ==
    /\ request' = [Req("profile", user, "GET") EXCEPT !.username = username, !.page = page]
    /\ before' = follows
    /\ UNCHANGED <<comments, inflight>>
    /\ IF username \notin Users THEN
           response' = NotFound
       ELSE IF is_authenticated(user) THEN
           response' = [Render("posts/profile.html", paginate_objects(AuthorPosts(username), page)) EXCEPT !.username = username, !.following = IF FollowExists(user, username) THEN "true" ELSE "false"]
       ELSE
           response' = [Render("posts/profile.html", paginate_objects(AuthorPosts(username), page)) EXCEPT !.username = username]
    /\ UNCHANGED <<posts, follows, cache, now>>

----------------------------------------------------------------------------
(* The index page and its cache *)

NoEntry == [set |-> FALSE, expires |-> 0, response |-> NoResponse]

\* index without the paginator: every post on one page
index_view_unpaginated(page) == Render("posts/index.html", [number |-> 1, object_list |-> [i \in 1..Len(posts) |-> RenderPost(PostsAll[i])]])

\* the body of index: all posts, paginated, rendered
index_view(page) == Render("posts/index.html", paginate_objects(PostsAll, page))

\* an entry stored without a timeout: once set it is served for ever
CacheHit_forever(page) == cache[page].set

\* the cache holds an entry for the URL and it has not expired
CacheHit(page) == cache[page].set /\ now < cache[page].expires

\* @cache_page(20, key_prefix='index_page') around index: a fresh entry is
\* returned as stored; otherwise the view runs and its response is stored
index(page) ==
    /\ request' = [Req("index", Anon, "GET") EXCEPT !.page = page]
    /\ before' = follows
    /\ UNCHANGED <<comments, inflight>>
    /\ IF CacheHit(page) THEN
           response' = cache[page].response /\ UNCHANGED cache
       ELSE
           /\ response' = index_view(page)
           /\ cache' = [cache EXCEPT ![page] = [set |-> TRUE, expires |-> now + CACHE_SECONDS, response |-> index_view(page)]]
    /\ UNCHANGED <<posts, follows, now>>

\* cache.clear()
cache_clear ==
    /\ \E k \in DOMAIN cache : cache[k].set
    /\ cache' = [k \in DOMAIN cache |-> NoEntry]
    /\ UNCHANGED <<posts, follows, now, request, response, before, comments, inflight>>

\* the clock of the cache advances by d seconds
Tick(d) ==
    /\ now + d <= MaxTime
    /\ now' = now + d
    /\ UNCHANGED <<posts, follows, cache, request, response, before, comments, inflight>>

----------------------------------------------------------------------------
(* Specifications *)

\* the state after the migrations: empty tables, an empty cache
Init ==
    /\ posts = <<>>
    /\ follows = EmptyBag
    /\ cache = [k \in PageArgs |-> NoEntry]
    /\ now = 0
    /\ request = NoRequest
    /\ response = NoResponse
    /\ before = EmptyBag
    /\ comments = <<>>
    /\ inflight = [w \in Workers |-> Idle]

\* a post with a text and nothing else
PlainData == [text |-> "a", group |-> NoGroup, image |-> NoImage]

\* the follow graph and the follow feed
Next ==
    \/ \E u \in Actors, a \in Usernames : profile_follow(u, a)
    \/ \E u \in Actors, a \in Usernames : profile_unfollow(u, a)
    \/ \E u \in Actors : follow_index(u, NoPage)
    \/ \E u \in Users : post_create(u, "POST", PlainData)

Spec == Init /\ [][Next]_vars

\* posts with and without a group
GroupData == {[text |-> "a", group |-> g, image |-> NoImage] : g \in Groups \cup {NoGroup}}

\* posts in groups, the group pages and the index page
NextFeed ==
    \/ \E d \in GroupData : post_create("u1", "POST", d)
    \/ \E pk \in 1..MaxPosts, d \in GroupData : post_edit("u1", "POST", pk, d)
    \/ \E g \in Slugs : group_posts(g, NoPage)
    \/ index(NoPage)
    \/ cache_clear

SpecFeed == Init /\ [][NextFeed]_vars

\* the forms an edit sends: two valid ones, one without text, one with an unknown group
EditData == {[text |-> "b", group |-> "g1", image |-> "img"], [text |-> "b", group |-> NoGroup, image |-> NoImage], [text |-> "", group |-> "g1", image |-> "img"], [text |-> "b", group |-> "g9", image |-> NoImage]}

\* editing: every actor, both methods, existing and unknown post ids
NextEdit ==
    \/ \E u \in {"u1", "u2"} : post_create(u, "POST", PlainData)
    \/ \E u \in {"u1", "u2", Anon}, pk \in 1..(MaxPosts + 1) : post_edit(u, "GET", pk, NoData)
    \/ \E u \in {"u1", "u2", Anon}, pk \in 1..(MaxPosts + 1), d \in EditData : post_edit(u, "POST", pk, d)

SpecEdit == Init /\ [][NextEdit]_vars

\* the texts an edit of the cached post sets
TextData == {[text |-> t, group |-> NoGroup, image |-> NoImage] : t \in Texts}

\* one post whose text changes, the index page, the clock and cache.clear()
NextCache ==
    \/ posts = <<>> /\ post_create("u1", "POST", PlainData)
    \/ \E d \in TextData : post_edit("u1", "POST", 1, d)
    \/ index(NoPage)
    \/ cache_clear
    \/ \E d \in 1..CACHE_SECONDS : Tick(d)

SpecCache == Init /\ [][NextCache]_vars

\* the fixture of TestingPaginator: n posts of one author in one group
Fixture(n) == [i \in 1..n |-> [author |-> "u1", text |-> "a", group |-> "g1", image |-> NoImage]]

\* n posts of u1 in g1, and u2 follows u1
InitPage ==
    /\ \E n \in 0..MaxFixture : posts = Fixture(n)
    /\ follows = SetToBag({<<"u2", "u1">>})
    /\ cache = [k \in PageArgs |-> NoEntry]
    /\ now = 0
    /\ request = NoRequest
    /\ response = NoResponse
    /\ before = follows
    /\ comments = <<>>
    /\ inflight = [w \in Workers |-> Idle]

\* the four paginated views, every ?page= argument
NextPage ==
    \/ \E pg \in PageArgs : index(pg)
    \/ \E g \in Groups, pg \in PageArgs : group_posts(g, pg)
    \/ \E pg \in PageArgs : profile(Anon, "u1", pg)
    \/ \E pg \in PageArgs : follow_index("u2", pg)

SpecPage == InitPage /\ [][NextPage]_vars

\* the forms post_create receives: a valid one, one without text, one with an unknown group
CreateData == {PlainData, [text |-> "", group |-> "g1", image |-> NoImage], [text |-> "a", group |-> "g9", image |-> NoImage]}

\* the forms add_comment receives: with and without a text
CommentData == {[text |-> t, group |-> NoGroup, image |-> NoImage] : t \in {"", "c"}}

\* creating posts and comments: every actor, both methods, valid and invalid forms
NextComment ==
    \/ \E u \in {"u1", "u2", Anon} : post_create(u, "GET", NoData)
    \/ \E u \in {"u1", "u2", Anon}, d \in CreateData : post_create(u, "POST", d)
    \/ \E u \in {"u1", "u2", Anon}, pk \in 1..(MaxPosts + 1) : add_comment(u, "GET", pk, NoData)
    \/ \E u \in {"u1", "u2", Anon}, pk \in 1..(MaxPosts + 1), d \in CommentData : add_comment(u, "POST", pk, d)

SpecComment == Init /\ [][NextComment]_vars

\* concurrent profile_follow requests, with unfollow requests in between
NextRace ==
    \/ \E w \in Workers, u \in {"u1", "u2", Anon}, a \in {"u1", "u2", "ghost"} : follow_receive(w, u, a)
    \/ \E w \in Workers : follow_check(w)
    \/ \E w \in Workers : follow_create(w)
    \/ \E w \in Workers : follow_respond(w)
    \/ \E u \in {"u1", "u2"}, a \in {"u1", "u2"} : profile_unfollow(u, a)

SpecRace == Init /\ [][NextRace]_vars

----------------------------------------------------------------------------
(* The follow graph and the follow feed (Spec) *)

\* the authors user has a Follow edge to
Following(table, user) == {a \in Actors : CopiesIn(<<user, a>>, table) > 0}

\* how often pk occurs in a list of primary keys
Occurrences(pks, pk) == Cardinality({i \in DOMAIN pks : pks[i] = pk})

\* the primary keys a rendered page shows
ShownIds(resp) == {resp.page[i].id : i \in DOMAIN resp.page}

\* the latest request was let through login_required and named an existing user
ServedFor(view) == request.view = view /\ is_authenticated(request.user) /\ request.username \in Users

\* C1: the follow feed of an authenticated viewer v holds exactly the posts
\* whose author v has a Follow edge to, each once: a post of a followed author
\* is in it, a post of any other author is not; the page follow_index renders
\* for v shows exactly these posts; and right after v unfollows B no post of B
\* is in v's feed.
C1_FollowFeedExact ==
    /\ \A v \in Users : \A pk \in DOMAIN posts :
           Occurrences(FollowedPosts(v), pk) = IF posts[pk].author \in Following(follows, v) THEN 1 ELSE 0
    /\ (request.view = "follow_index" /\ is_authenticated(request.user)) =>
           /\ response.kind = "render"
           /\ ShownIds(response) = {pk \in DOMAIN posts : posts[pk].author \in Following(follows, request.user)}
    /\ ServedFor("profile_unfollow") =>
           \A pk \in DOMAIN posts : posts[pk].author = request.username => Occurrences(FollowedPosts(request.user), pk) = 0

\* v's feed was rendered with a post of a followed author while a post of an
\* author v does not follow exists
C1_Witness ==
    /\ request.view = "follow_index" /\ is_authenticated(request.user)
    /\ response.page # <<>>
    /\ \E pk \in DOMAIN posts : posts[pk].author \notin Following(follows, request.user) /\ pk \notin ShownIds(response)

\* C2: profile_follow is idempotent: after Follow(u, a) with u # a, whether the
\* edge existed before the call or not, the table holds exactly one (u, a) row,
\* every other pair has the rows it had, and the call is answered with the
\* redirect to follow_index; a call that finds the edge leaves the table as it
\* was. No (user, author) pair ever has more than one row.
C2_FollowIdempotent ==
    /\ \A r \in DOMAIN follows : follows[r] <= 1
    /\ (ServedFor("profile_follow") /\ request.user # request.username) =>
           /\ CopiesIn(<<request.user, request.username>>, follows) = 1
           /\ \A r \in (Actors \X Actors) \ {<<request.user, request.username>>} : CopiesIn(r, follows) = CopiesIn(r, before)
           /\ response = Redirect("posts:follow_index", 0, "")
           /\ CopiesIn(<<request.user, request.username>>, before) > 0 => follows = before

\* Follow(u, a) arrived when the edge (u, a) was already there
C2_Witness ==
    /\ ServedFor("profile_follow") /\ request.user # request.username
    /\ CopiesIn(<<request.user, request.username>>, before) = 1
    /\ BagCardinality(follows) >= 2

\* C3: no Follow row has user = author, and Follow(viewer, viewer) leaves the
\* follow graph as it was.
C3_NoSelfFollow ==
    /\ \A r \in DOMAIN follows : r[1] # r[2]
    /\ (ServedFor("profile_follow") /\ request.user = request.username) => follows = before

\* a user asked to follow themselves while the graph had edges
C3_Witness ==
    /\ ServedFor("profile_follow") /\ request.user = request.username
    /\ BagCardinality(before) >= 1

\* C4: after profile_unfollow(viewer, target) the Follow table is the table the
\* request found minus the rows of (viewer, target): that pair has no row, every
\* other pair has the rows it had, the row count drops by exactly one when the
\* edge existed and by nothing when it did not (so a second call changes nothing).
C4_UnfollowFrame ==
    ServedFor("profile_unfollow") =>
        /\ CopiesIn(<<request.user, request.username>>, follows) = 0
        /\ \A r \in (Actors \X Actors) \ {<<request.user, request.username>>} : CopiesIn(r, follows) = CopiesIn(r, before)
        /\ BagCardinality(follows) = BagCardinality(before) - (IF CopiesIn(<<request.user, request.username>>, before) > 0 THEN 1 ELSE 0)
        /\ CopiesIn(<<request.user, request.username>>, before) = 0 => follows = before

\* an existing edge was removed while the viewer kept another edge and another
\* user kept an edge to the same author
C4_Witness ==
    /\ ServedFor("profile_unfollow")
    /\ CopiesIn(<<request.user, request.username>>, before) = 1
    /\ \E a \in Users : a # request.username /\ CopiesIn(<<request.user, a>>, follows) = 1
    /\ \E u \in Users : u # request.user /\ CopiesIn(<<u, request.username>>, follows) = 1

\* C10: a request of an unauthenticated viewer to profile_follow,
\* profile_unfollow or follow_index is answered with the redirect to login,
\* leaves the Follow table as it was and renders no feed.
C10_AnonymousRejected ==
    (request.user = Anon /\ request.view \in {"profile_follow", "profile_unfollow", "follow_index"}) =>
        /\ response = RedirectLogin
        /\ response.kind # "render"
        /\ follows = before
        /\ \A r \in DOMAIN follows : r[1] # Anon

\* an anonymous request to unfollow u2 arrived while u1 followed u2
C10_Witness ==
    /\ request.user = Anon /\ request.view = "profile_unfollow" /\ request.username = "u2"
    /\ CopiesIn(<<"u1", "u2">>, follows) = 1

----------------------------------------------------------------------------
(* Posts in groups (SpecFeed) *)

\* the primary keys of a list
Ids(pks) == {pks[i] : i \in DOMAIN pks}

\* C5: every post whose group is G is in the global feed computed fresh (the
\* view body of index) and in the group feed of G, and in the group feed of no
\* other group; the page group_posts renders for a slug shows exactly the
\* posts of that group. (Feeds here are shorter than one page.)
C5_GroupFeeds ==
    /\ \A pk \in DOMAIN posts : posts[pk].group \in Groups =>
           /\ pk \in ShownIds(index_view(NoPage))
           /\ pk \in Ids(GroupPosts(posts[pk].group))
           /\ \A g \in Groups \ {posts[pk].group} : pk \notin Ids(GroupPosts(g))
    /\ (request.view = "group_posts" /\ request.slug \in Groups) =>
           /\ response.kind = "render"
           /\ ShownIds(response) = {pk \in DOMAIN posts : posts[pk].group = request.slug}

\* the page of g2 was rendered without the post of g1 that exists
C5_Witness ==
    /\ request.view = "group_posts" /\ request.slug = "g2"
    /\ response.page # <<>>
    /\ \E pk \in DOMAIN posts : posts[pk].group = "g1" /\ pk \notin ShownIds(response)

----------------------------------------------------------------------------
(* Editing a post (SpecEdit) *)

\* the latest request was a post_edit for an existing post
EditOf(req, table) == req.view = "post_edit" /\ req.post_id \in DOMAIN table

\* C7: a post_edit request (GET or POST, valid or invalid form) by an actor
\* who is not the post's author leaves every post as it was; a step that
\* changes an existing post is a POST to post_edit by that post's author with
\* a valid form, it changes no other post, and it never changes the author.
C7_OnlyAuthorEdits ==
    [][/\ (EditOf(request', posts) /\ request'.user # posts[request'.post_id].author) => posts' = posts
       /\ \A pk \in DOMAIN posts : (pk \in DOMAIN posts' /\ posts'[pk] # posts[pk]) =>
              /\ request'.view = "post_edit" /\ request'.post_id = pk
              /\ request'.user = posts[pk].author
              /\ request'.method = "POST" /\ request'.data.text # "" /\ request'.data.group \in Groups \cup {NoGroup}
              /\ posts'[pk].author = posts[pk].author
              /\ \A other \in DOMAIN posts \ {pk} : posts'[other] = posts[other]]_vars

\* an authenticated non-author sent a valid form for a post, which kept its text
C7_Witness ==
    /\ EditOf(request, posts) /\ request.method = "POST"
    /\ request.user \in Users /\ request.user # posts[request.post_id].author
    /\ request.data.text = "b" /\ request.data.group = "g1"
    /\ posts[request.post_id].text = "a"

\* C8 as stated: a post_edit request by any actor other than the post's
\* author, an anonymous one included, is answered with the redirect to the
\* post's detail view.
C8_Original ==
    (EditOf(request, posts) /\ request.user # posts[request.post_id].author) =>
        response = Redirect("posts:post_detail", request.post_id, "")

\* C8 amended: a post_edit request by an authenticated actor other than the
\* post's author is answered with the redirect to the post's detail view; an
\* anonymous actor is answered with the redirect to login.
C8_NonAuthorRedirected ==
    (EditOf(request, posts) /\ request.user # posts[request.post_id].author) =>
        response = IF request.user = Anon THEN RedirectLogin ELSE Redirect("posts:post_detail", request.post_id, "")

\* an anonymous actor posted a valid form for an existing post
C8_Witness ==
    /\ EditOf(request, posts) /\ request.user = Anon /\ request.method = "POST"
    /\ request.data.text = "b" /\ request.data.group = "g1"
    /\ response.kind = "redirect"

----------------------------------------------------------------------------
(* The cache of the index page (SpecCache) *)

\* the step is a request for the index page
IndexStep == request'.view = "index" /\ now' = now /\ cache'[request'.page].set

\* the cache holds an entry for the page that is younger than the window
InWindow(page) == cache[page].set /\ now < cache[page].expires

\* the response shows every post, with the text the Post table holds
ShowsCurrent(resp, table) ==
    /\ resp.kind = "render"
    /\ {resp.page[i].id : i \in DOMAIN resp.page} = DOMAIN table
    /\ \A i \in DOMAIN resp.page : resp.page[i].text = table[resp.page[i].id].text

\* C6: a request for the index page that arrives within 20 seconds of the
\* request that filled the cache is answered with the bytes that request
\* stored, whatever happened to the posts since; no write to a post touches
\* the cache; an entry lives for exactly the window; and a request that finds
\* the entry expired or the cache cleared is computed from the posts as they
\* are and stored for the next window.
C6_IndexCache ==
    /\ [](\A k \in DOMAIN cache : cache[k].set => cache[k].expires <= now + CACHE_SECONDS)
    /\ [][/\ (IndexStep /\ InWindow(request'.page)) =>
                 (response' = cache[request'.page].response /\ cache' = cache)
          /\ (IndexStep /\ ~InWindow(request'.page)) =>
                 /\ ShowsCurrent(response', posts)
                 /\ cache'[request'.page].response = response'
                 /\ cache'[request'.page].expires = now + CACHE_SECONDS
          /\ posts' # posts => cache' = cache]_vars

\* the index page was served from the cache with a text the post no longer has
C6_Witness ==
    /\ request.view = "index" /\ InWindow(NoPage)
    /\ response = cache[NoPage].response
    /\ response.page # <<>>
    /\ response.page[1].text # posts[response.page[1].id].text
    /\ now > CACHE_SECONDS

----------------------------------------------------------------------------
(* Pagination (SpecPage) *)

\* how many posts the feed of the latest request has
FeedSize ==
    CASE request.view = "index" -> Len(posts)
      [] request.view = "group_posts" -> Cardinality({pk \in DOMAIN posts : posts[pk].group = request.slug})
      [] request.view = "profile" -> Cardinality({pk \in DOMAIN posts : posts[pk].author = request.username})
      [] request.view = "follow_index" -> Cardinality({pk \in DOMAIN posts : CopiesIn(<<request.user, posts[pk].author>>, follows) > 0})
      [] OTHER -> 0

\* the number of the last valid page of a feed of n posts
LastPage(n) == IF n <= POST_PER_PAGE THEN 1 ELSE (n + POST_PER_PAGE - 1) \div POST_PER_PAGE

\* C9: for a feed of N posts and page size S = POST_PER_PAGE, a request for
\* page k, 1 <= k <= last page, is answered with page k holding
\* min(S, N - (k-1)*S) posts, and a request for an integer page out of that
\* range is answered with the last valid page, not with an error.
C9_Pagination ==
    (request.view \in {"index", "group_posts", "profile", "follow_index"} /\ request.page.kind = "int") =>
        LET n == FeedSize
            k == request.page.n
            shown == IF 1 <= k /\ k <= LastPage(n) THEN k ELSE LastPage(n)
            rest == n - (shown - 1) * POST_PER_PAGE
        IN  /\ response.kind = "render"
            /\ response.number = shown
            /\ Len(response.page) = IF POST_PER_PAGE < rest THEN POST_PER_PAGE ELSE rest

\* page 3 of a feed of two pages was asked for and the second page, with the
\* remainder, was rendered
C9_Witness ==
    /\ request.view = "group_posts" /\ request.page = IntPage(3)
    /\ Len(posts) > POST_PER_PAGE /\ Len(posts) < 2 * POST_PER_PAGE
    /\ response.number = 2
    /\ Len(response.page) = Len(posts) - POST_PER_PAGE
    /\ Len(response.page) < POST_PER_PAGE

----------------------------------------------------------------------------
(* Creating posts and comments (SpecComment) *)

\* the table grew by rows at its end and kept the rows it had
Grew(old, new) == Len(new) > Len(old) /\ SubSeq(new, 1, Len(old)) = old

\* C11: a step that adds a Post is a POST to post_create by an authenticated
\* actor with a text and a known or no group; it adds one Post, whose author
\* is that actor. A step that adds a Comment is a POST to add_comment by an
\* authenticated actor with a text; it adds one Comment, whose author is that
\* actor and whose post is the post of the URL. No step removes or rewrites a
\* row, and a request that is no POST or whose form is invalid adds none.
C11_CreatedByActor ==
    [][/\ posts' # posts =>
              /\ Grew(posts, posts') /\ Len(posts') = Len(posts) + 1
              /\ request'.view = "post_create" /\ request'.method = "POST"
              /\ request'.user \in Users /\ request'.data.text # "" /\ request'.data.group \in Groups \cup {NoGroup}
              /\ posts'[Len(posts')].author = request'.user
              /\ posts'[Len(posts')].text = request'.data.text
       /\ comments' # comments =>
              /\ Grew(comments, comments') /\ Len(comments') = Len(comments) + 1
              /\ request'.view = "add_comment" /\ request'.method = "POST"
              /\ request'.user \in Users /\ request'.data.text # ""
              /\ comments'[Len(comments')].author = request'.user
              /\ comments'[Len(comments')].post = request'.post_id
              /\ request'.post_id \in DOMAIN posts
       /\ (request'.view \in {"post_create", "add_comment"}
             /\ (request'.method # "POST" \/ request'.data.text = "" \/ request'.data.group \notin Groups \cup {NoGroup})) =>
              (posts' = posts /\ comments' = comments)]_vars

\* u2 commented on a post of u1, and the comment is u2's, on that post
C11_Witness ==
    /\ request.view = "add_comment" /\ request.method = "POST" /\ request.user = "u2"
    /\ request.post_id \in DOMAIN posts /\ posts[request.post_id].author = "u1"
    /\ comments # <<>>
    /\ comments[Len(comments)] = [author |-> "u2", post |-> request.post_id, text |-> "c"]

----------------------------------------------------------------------------
(* Concurrent profile_follow requests (SpecRace) *)

\* C12: however concurrent profile_follow requests for the same (user,
\* author) pair interleave their existence check and their create, the Follow
\* table never holds more than one row for a pair: a create that lost the
\* race is refused by unique_user_author.
C12_RaceKeepsUnique ==
    /\ \A r \in DOMAIN follows : follows[r] <= 1
    /\ BagCardinality(follows) = Cardinality(DOMAIN follows)

\* two requests for the same pair both passed the existence check; one
\* created the row, the other's create was refused, and one row is stored
C12_Witness ==
    \E w1, w2 \in Workers :
        /\ w1 # w2
        /\ inflight[w1].pc = "done" /\ inflight[w1].response = Redirect("posts:follow_index", 0, "")
        /\ inflight[w2].pc = "done" /\ inflight[w2].response = ServerError
        /\ inflight[w1].user = inflight[w2].user /\ inflight[w1].author = inflight[w2].author
        /\ CopiesIn(<<inflight[w1].user, inflight[w1].author>>, follows) = 1

============================================================================
